---- MODULE Spec2Model ----
(***************************************************************************)
(* Model of the three developer utilities of scripts/: lint.py (bounded    *)
(* asyncio fan-out of clang-tidy), format.py (sequential clang-format) and *)
(* build.py (sequential cmake configure / build).  Each utility is one     *)
(* specification over the shared variables below.                          *)
(***************************************************************************)
EXTENDS Integers, Sequences, FiniteSets, TLC

VARIABLES
    utility,          \* the script that is run: "lint", "format" or "build"
    project_dir,      \* parts of Path(__file__).parent.parent
    pc,               \* position of the utility's main()
    exitStatus,       \* process exit status, Running while the process lives
    console,          \* lines printed through the rich console, in order
    haveTool,         \* shutil.which(<tool>) finds the external tool
    fsFiles,          \* source tree: paths (relative to project_dir) that exist
    files,            \* main(): files = find_cpp_files()
    discovered,       \* find_cpp_files() has been called
    \* ---- lint.py
    fix, jobs,        \* --fix, --jobs
    buildDb, rootDb,  \* build/compile_commands.json, ./compile_commands.json exist
    compile_commands, \* main(): compile_commands = find_compile_commands()
    semaphore,        \* asyncio.Semaphore value, NoSemaphore before construction
    taskpc,           \* per file: position of its lint_file coroutine
    child,            \* per file: the clang-tidy child process
    spawns,           \* per file: number of create_subprocess_exec calls
    result,           \* per file: value returned by lint_file
    doneq,            \* as_completed's queue of finished tasks
    progress,         \* completed count of the rich progress task
    failed_files,     \* lint_all_files: failed_files
    collected,        \* the triples bound by "file, success, output = await coro"
    success,          \* main(): success = asyncio.run(lint_all_files(...))
    \* ---- format.py
    check,            \* --check
    idx,              \* position of the "for file in track(files)" loop
    needs_format,     \* main(): needs_format
    invocations,      \* the clang-format runs so far: args, file, returncode
    rewritten,        \* files clang-format has rewritten in place
    \* ---- build.py
    mode, tests, clean, verbose, export_compile_commands,   \* the options
    jobsGiven,        \* --jobs was passed (its value is jobs), else jobs is None
    cpu_count,        \* os.cpu_count(), NoneValue when undetermined
    buildDir,         \* build/: whether it exists, and the entries in it
    rootCompileCommands, \* ./compile_commands.json: "absent", "stale", "exported"
    vcpkgExists,      \* indices of possible_locations that exist
    vcpkgRoot,        \* VCPKG_ROOT: "unset", "empty", "missing" (no toolchain there), "valid"
    toolchain_file,   \* main(): toolchain_file = find_vcpkg_toolchain()
    commands,         \* run_command calls so far: args, what cwd held, returncode
    cleaned           \* what each shutil.rmtree(build_dir) call removed

commonVars == <<utility, project_dir, pc, exitStatus, console, haveTool,
                fsFiles, files, discovered>>
lintOpts   == <<fix, jobs, buildDb, rootDb>>
lintTasks  == <<semaphore, taskpc, child, spawns, result, doneq>>
lintLoop   == <<progress, failed_files, collected>>
lintVars   == <<lintOpts, compile_commands, lintTasks, lintLoop, success>>
fmtVars    == <<check, idx, needs_format, invocations, rewritten>>
buildOpts  == <<mode, tests, clean, verbose, export_compile_commands,
                jobsGiven, cpu_count>>
buildEnv   == <<vcpkgExists, vcpkgRoot>>
buildVars  == <<buildOpts, buildEnv, buildDir, rootCompileCommands,
                toolchain_file, commands, cleaned>>
notLint    == <<fmtVars, buildVars>>
notFormat  == <<lintVars, buildVars>>
notBuild   == <<fmtVars, fix, buildDb, rootDb, compile_commands, lintTasks,
                lintLoop, success, fsFiles, project_dir, utility, files,
                discovered>>
vars       == <<commonVars, lintVars, fmtVars, buildVars>>

----------------------------------------------------------------------------
(* Bounds *)
MaxJobs == 3

----------------------------------------------------------------------------
(* Values *)
Running     == -1        \* exitStatus while the process has not exited
NoSemaphore == -2        \* semaphore before asyncio.Semaphore(jobs)
NoPath      == <<>>      \* Python None for Optional[Path]
NoResult    == <<>>
NoneValue   == 0         \* Python None where only its falsiness is used
NoToolchain == ""        \* find_vcpkg_toolchain() returning None
NoChild     == [state |-> "none", rc |-> 0, stdout |-> <<>>, stderr |-> <<>>]

Range(s) == {s[i] : i \in 1..Len(s)}

----------------------------------------------------------------------------
(* The source tree.  A path is the sequence of its parts below project_dir. *)

\* where the repository can be checked out
ProjectDirs == { <<"home", "repo">>, <<"home", "build", "repo">> }

Candidates ==
    { <<"src", "a.cpp">>, <<"src", "b.cc">>, <<"tests", "c.cxx">>,
      <<"include", "d.h">>, <<"build", "e.cpp">> }

\* Path.suffix of the final part
Suffix(name) ==
    CASE name = "a.cpp" -> ".cpp"
      [] name = "b.cc"  -> ".cc"
      [] name = "c.cxx" -> ".cxx"
      [] name = "d.h"   -> ".h"
      [] name = "e.cpp" -> ".cpp"
      [] OTHER          -> ""

\* Python str ordering (code points) of the part names in use
StrRank(s) ==
    CASE s = "a.cpp"   -> 1
      [] s = "b.cc"    -> 2
      [] s = "build"   -> 3
      [] s = "c.cxx"   -> 4
      [] s = "d.h"     -> 5
      [] s = "e.cpp"   -> 6
      [] s = "include" -> 7
      [] s = "src"     -> 8
      [] s = "tests"   -> 9
      [] OTHER         -> 0

\* PurePath.__lt__: lexicographic comparison of the parts
RECURSIVE PathLess(_, _)
PathLess(p, q) ==
    IF p = <<>> THEN q # <<>>
    ELSE IF q = <<>> THEN FALSE
    ELSE IF StrRank(Head(p)) # StrRank(Head(q))
         THEN StrRank(Head(p)) < StrRank(Head(q))
         ELSE PathLess(Tail(p), Tail(q))

\* sorted(files)
RECURSIVE Sorted(_)
Sorted(S) ==
    IF S = {} THEN <<>>
    ELSE LET m == CHOOSE x \in S : \A y \in S \ {x} : PathLess(x, y)
         IN  <<m>> \o Sorted(S \ {m})

FormatExtensions == {".h", ".hpp", ".cc", ".cpp", ".cxx"}
LintExtensions   == {".cc", ".cpp", ".cxx"}
exclude_dirs     == {"build", "vcpkg_installed", ".cache", ".git"}

\* file.parts: the parts of project_dir followed by the parts below it
parts(f) == project_dir \o f

\* rglob("*<ext>") for every ext, minus the paths with an excluded part
find_cpp_files(extensions) ==
    Sorted({ f \in fsFiles :
               /\ Suffix(f[Len(f)]) \in extensions
               /\ ~ \E excluded \in exclude_dirs : excluded \in Range(parts(f)) })

Name(f) == f[Len(f)]
console_print(line) == Append(console, line)

\* sys.exit(status) / return from main / uncaught exception
Exit(status, where) ==
    /\ pc' = where
    /\ exitStatus' = status

----------------------------------------------------------------------------
(* lint.py *)

\* what a clang-tidy run can end with: returncode, stdout, stderr
ChildOutcomes ==
    { [rc |-> 0, stdout |-> <<>>,          stderr |-> <<>>],
      [rc |-> 1, stdout |-> <<"warning">>, stderr |-> <<"error">>],
      [rc |-> 1, stdout |-> <<>>,          stderr |-> <<"error">>] }

find_compile_commands_Unchecked ==
    IF buildDb THEN <<"build", "compile_commands.json">>
    ELSE <<"compile_commands.json">>

find_compile_commands ==
    IF buildDb THEN <<"build", "compile_commands.json">>
    ELSE IF rootDb THEN <<"compile_commands.json">>
    ELSE NoPath

\* the variables of the utilities that are not running
LintIdle ==
    /\ fix = FALSE
    /\ buildDb = FALSE
    /\ rootDb = FALSE
    /\ compile_commands = NoPath
    /\ semaphore = NoSemaphore
    /\ taskpc = [f \in Candidates |-> "none"]
    /\ child = [f \in Candidates |-> NoChild]
    /\ spawns = [f \in Candidates |-> 0]
    /\ result = [f \in Candidates |-> NoResult]
    /\ doneq = <<>>
    /\ progress = 0
    /\ failed_files = <<>>
    /\ collected = <<>>
    /\ success = FALSE

FormatIdle ==
    /\ check = FALSE
    /\ idx = 1
    /\ needs_format = <<>>
    /\ invocations = <<>>
    /\ rewritten = {}

BuildIdle ==
    /\ mode = "debug"
    /\ tests = FALSE
    /\ clean = FALSE
    /\ verbose = FALSE
    /\ export_compile_commands = FALSE
    /\ jobsGiven = TRUE
    /\ cpu_count = NoneValue
    /\ buildDir = [exists |-> FALSE, contents |-> {}]
    /\ rootCompileCommands = "absent"
    /\ vcpkgExists = {}
    /\ vcpkgRoot = "unset"
    /\ toolchain_file = NoToolchain
    /\ commands = <<>>
    /\ cleaned = <<>>

LintInit ==
    /\ pc = "start"
    /\ exitStatus = Running
    /\ console = <<>>
    /\ haveTool \in BOOLEAN
    /\ fsFiles \in SUBSET Candidates
    /\ project_dir \in ProjectDirs
    /\ utility = "lint"
    /\ files = <<>>
    /\ discovered = FALSE
    /\ fix \in BOOLEAN
    /\ jobs \in -1..MaxJobs
    /\ buildDb \in BOOLEAN
    /\ rootDb \in BOOLEAN
    /\ compile_commands = NoPath
    /\ semaphore = NoSemaphore
    /\ taskpc = [f \in Candidates |-> "none"]
    /\ child = [f \in Candidates |-> NoChild]
    /\ spawns = [f \in Candidates |-> 0]
    /\ result = [f \in Candidates |-> NoResult]
    /\ doneq = <<>>
    /\ progress = 0
    /\ failed_files = <<>>
    /\ collected = <<>>
    /\ success = FALSE
    /\ FormatIdle
    /\ BuildIdle

\* main: if not shutil.which("clang-tidy"): ... sys.exit(1)
LintCheckTool ==
    /\ utility = "lint"
    /\ pc = "start"
    /\ IF ~haveTool
       THEN /\ console' = console_print(<<"clang-tidy is not installed">>)
            /\ Exit(1, "exited")
       ELSE /\ pc' = "find_compile_commands"
            /\ UNCHANGED <<console, exitStatus>>
    /\ UNCHANGED <<haveTool, fsFiles, project_dir, utility, files,
                   discovered, lintVars>>
    /\ UNCHANGED notLint

\* main: compile_commands = find_compile_commands(); if not ...: sys.exit(1)
LintFindCompileCommands ==
    /\ pc = "find_compile_commands"
    /\ compile_commands' = find_compile_commands
    /\ IF find_compile_commands = NoPath
       THEN /\ console' = console_print(<<"compile_commands.json not found">>)
            /\ Exit(1, "exited")
       ELSE /\ console' = console_print(<<"Using compile commands">>)
            /\ pc' = "find_cpp_files"
            /\ UNCHANGED exitStatus
    /\ UNCHANGED <<haveTool, fsFiles, project_dir, utility, files, discovered>>
    /\ UNCHANGED <<lintOpts, lintTasks, lintLoop, success>>
    /\ UNCHANGED notLint

\* main: files = find_cpp_files(); if not files: return
LintFindFiles ==
    /\ utility = "lint"
    /\ pc = "find_cpp_files"
    /\ files' = find_cpp_files(LintExtensions)
    /\ discovered' = TRUE
    /\ IF find_cpp_files(LintExtensions) = <<>>
       THEN /\ console' = console_print(<<"No C++ files found to lint">>)
            /\ Exit(0, "exited")
       ELSE /\ pc' = "lint_all_files"
            /\ UNCHANGED <<console, exitStatus>>
    /\ UNCHANGED <<haveTool, fsFiles, project_dir, utility, lintVars>>
    /\ UNCHANGED notLint

\* lint_all_files: semaphore = asyncio.Semaphore(jobs); tasks = [...];
\* asyncio.Semaphore raises ValueError for a negative value, which nothing
\* catches: the interpreter prints the traceback and exits with status 1.
LintAllFilesBegin ==
    /\ pc = "lint_all_files"
    /\ IF jobs < 0
       THEN /\ Exit(1, "crashed")
            /\ UNCHANGED <<semaphore, taskpc>>
       ELSE /\ semaphore' = jobs
            /\ taskpc' = [f \in Candidates |->
                            IF f \in Range(files) THEN "pending" ELSE "none"]
            /\ pc' = "as_completed"
            /\ UNCHANGED exitStatus
    /\ UNCHANGED <<console, haveTool, fsFiles, project_dir, utility, files,
                   discovered>>
    /\ UNCHANGED <<lintOpts, compile_commands, child, spawns, result, doneq,
                   lintLoop, success>>
    /\ UNCHANGED notLint

SemaphoreFree_OffByOne == semaphore >= 0

\* Semaphore.acquire returns at once only while the value is positive
SemaphoreFree == semaphore > 0

\* lint_file up to its first suspension: async with semaphore (taken without
\* suspending when a permit is free), create_subprocess_exec(*cmd)
LintFileStart(f) ==
    /\ pc = "as_completed"
    /\ taskpc[f] = "pending"
    /\ SemaphoreFree
    /\ semaphore' = semaphore - 1
    /\ child' = [child EXCEPT ![f].state = "alive"]
    /\ spawns' = [spawns EXCEPT ![f] = @ + 1]
    /\ taskpc' = [taskpc EXCEPT ![f] = "communicate"]
    /\ UNCHANGED <<commonVars, lintOpts, compile_commands, result, doneq,
                   lintLoop, success>>
    /\ UNCHANGED notLint

\* the clang-tidy child of f exits
ChildExit(f, outcome) ==
    /\ child[f].state = "alive"
    /\ child' = [child EXCEPT ![f] = [state |-> "exited", rc |-> outcome.rc,
                                      stdout |-> outcome.stdout,
                                      stderr |-> outcome.stderr]]
    /\ UNCHANGED <<commonVars, lintOpts, compile_commands, semaphore, taskpc,
                   spawns, result, doneq, lintLoop, success>>
    /\ UNCHANGED notLint

lint_file_result_FirstFile(f) ==
    <<files[1], child[f].rc = 0, child[f].stdout \o child[f].stderr>>

\* lint_file: return file, success, output
lint_file_result(f) ==
    <<f, child[f].rc = 0, child[f].stdout \o child[f].stderr>>

\* lint_file after proc.communicate(): build the result, leave the
\* "async with" block (release) and finish; as_completed queues the task
LintFileFinish(f) ==
    /\ taskpc[f] = "communicate"
    /\ child[f].state = "exited"
    /\ result' = [result EXCEPT ![f] = lint_file_result(f)]
    /\ semaphore' = semaphore + 1
    /\ taskpc' = [taskpc EXCEPT ![f] = "done"]
    /\ doneq' = Append(doneq, f)
    /\ UNCHANGED <<commonVars, lintOpts, compile_commands, child, spawns,
                   lintLoop, success>>
    /\ UNCHANGED notLint

failed_entry_StdoutOnly(r) == <<r[1], child[r[1]].stdout>>

\* lint_all_files: failed_files.append((file, output))
failed_entry(r) == <<r[1], r[3]>>

next_completed_Latest == doneq[Len(doneq)]

\* asyncio.as_completed yields the tasks in the order in which they finished
next_completed == Head(doneq)

\* lint_all_files: one iteration of "for coro in asyncio.as_completed(tasks)"
LintCollect ==
    /\ pc = "as_completed"
    /\ doneq # <<>>
    /\ taskpc[next_completed] = "done"
    /\ LET r == result[next_completed]
       IN  /\ collected' = Append(collected, r)
           /\ progress' = progress + 1
           /\ IF r[2]
              THEN /\ console' = console_print(<<"ok", Name(r[1])>>)
                   /\ UNCHANGED failed_files
              ELSE /\ console' = console_print(<<"failed", Name(r[1])>>)
                   /\ failed_files' = Append(failed_files, failed_entry(r))
    /\ doneq' = Tail(doneq)
    /\ UNCHANGED <<pc, exitStatus, haveTool, fsFiles, project_dir, utility,
                   files, discovered>>
    /\ UNCHANGED <<lintOpts, compile_commands, semaphore, taskpc, child,
                   spawns, result, success>>
    /\ UNCHANGED notLint

LoopExhausted_FailFast ==
    Len(collected) = Len(files) \/ failed_files # <<>>

\* "for coro in asyncio.as_completed(tasks)" ends after len(tasks) results
LoopExhausted == Len(collected) = Len(files)

\* lint_all_files: the loop has yielded len(tasks) results;
\* return len(failed_files) == 0
LintAllFilesReturn ==
    /\ pc = "as_completed"
    /\ LoopExhausted
    /\ success' = (Len(failed_files) = 0)
    /\ console' = IF failed_files # <<>>
                  THEN console_print(<<"Issues found in the following files">>)
                  ELSE console
    /\ pc' = "summary"
    /\ UNCHANGED <<exitStatus, haveTool, fsFiles, project_dir, utility,
                   files, discovered>>
    /\ UNCHANGED <<lintOpts, compile_commands, lintTasks, lintLoop>>
    /\ UNCHANGED notLint

\* main: summary and sys.exit(0) / sys.exit(1)
LintSummary ==
    /\ pc = "summary"
    /\ IF success
       THEN /\ console' = console_print(IF fix
                                         THEN <<"Linting completed with fixes applied">>
                                         ELSE <<"No linting issues found">>)
            /\ Exit(0, "exited")
       ELSE /\ console' = console_print(IF fix
                                         THEN <<"Some files could not be automatically fixed">>
                                         ELSE <<"Linting issues found">>)
            /\ Exit(1, "exited")
    /\ UNCHANGED <<haveTool, fsFiles, project_dir, utility, files,
                   discovered, lintVars>>
    /\ UNCHANGED notLint

LintTask ==
    \E f \in Candidates :
        \/ LintFileStart(f)
        \/ \E outcome \in ChildOutcomes : ChildExit(f, outcome)
        \/ LintFileFinish(f)

Next ==
    \/ LintCheckTool
    \/ LintFindCompileCommands
    \/ LintFindFiles
    \/ LintAllFilesBegin
    \/ LintTask
    \/ LintCollect
    \/ LintAllFilesReturn
    \/ LintSummary

Spec == LintInit /\ [][Next]_vars

\* the event loop runs every ready coroutine and every started clang-tidy
\* eventually exits
LintMain ==
    \/ LintCheckTool
    \/ LintFindCompileCommands
    \/ LintFindFiles
    \/ LintAllFilesBegin
    \/ LintCollect
    \/ LintAllFilesReturn
    \/ LintSummary

FairSpec ==
    /\ Spec
    /\ WF_vars(LintMain)
    /\ \A f \in Candidates :
          /\ WF_vars(LintFileStart(f))
          /\ WF_vars(\E outcome \in ChildOutcomes : ChildExit(f, outcome))
          /\ WF_vars(LintFileFinish(f))

----------------------------------------------------------------------------
(* format.py *)

\* returncodes a clang-format run can end with
FormatterCodes == {0, 1}

FormatInit ==
    /\ pc = "start"
    /\ exitStatus = Running
    /\ console = <<>>
    /\ haveTool \in BOOLEAN
    /\ fsFiles \in SUBSET Candidates
    /\ project_dir \in ProjectDirs
    /\ utility = "format"
    /\ files = <<>>
    /\ discovered = FALSE
    /\ check \in BOOLEAN
    /\ idx = 1
    /\ needs_format = <<>>
    /\ invocations = <<>>
    /\ rewritten = {}
    /\ jobs = 1
    /\ LintIdle
    /\ BuildIdle

check_file_format_args_InPlace == <<"clang-format", "-i", "--Werror">>

\* check_file_format: ["clang-format", "--dry-run", "--Werror", str(file)]
check_file_format_args == <<"clang-format", "--dry-run", "--Werror">>

\* format_file: ["clang-format", "-i", str(file)]
format_file_args == <<"clang-format", "-i">>

\* subprocess.run of clang-format on file f ending with returncode rc:
\* only a successful in-place run (-i without --dry-run) rewrites the file
clang_format(args, f, rc) ==
    /\ invocations' = Append(invocations, [args |-> args, file |-> f, rc |-> rc])
    /\ rewritten' = IF /\ "-i" \in Range(args)
                       /\ "--dry-run" \notin Range(args)
                       /\ rc = 0
                    THEN rewritten \cup {f}
                    ELSE rewritten

check_file_format_Inverted(rc) == rc # 0

\* check_file_format: return result.returncode == 0
check_file_format(rc) == rc = 0

format_file_raises_Never(rc) == FALSE

\* format_file: subprocess.run(..., check=True) raises on a non-zero returncode
format_file_raises(rc) == rc # 0

\* file.relative_to(file.parent.parent): the last two parts of the path
relative_to_grandparent(f) ==
    IF Len(f) <= 2 THEN f ELSE SubSeq(f, Len(f) - 1, Len(f))

\* main: if not shutil.which("clang-format"): ... sys.exit(1)
FormatCheckTool ==
    /\ utility = "format"
    /\ pc = "start"
    /\ IF ~haveTool
       THEN /\ console' = console_print(<<"clang-format is not installed">>)
            /\ Exit(1, "exited")
       ELSE /\ pc' = "find_cpp_files"
            /\ UNCHANGED <<console, exitStatus>>
    /\ UNCHANGED <<haveTool, fsFiles, project_dir, utility, files,
                   discovered, fmtVars>>
    /\ UNCHANGED notFormat

\* main: files = find_cpp_files(); if not files: return; if check: ... else: ...
FormatFindFiles ==
    /\ utility = "format"
    /\ pc = "find_cpp_files"
    /\ files' = find_cpp_files(FormatExtensions)
    /\ discovered' = TRUE
    /\ IF find_cpp_files(FormatExtensions) = <<>>
       THEN /\ console' = console_print(<<"No C++ files found">>)
            /\ Exit(0, "exited")
       ELSE /\ console' = console_print(IF check THEN <<"Checking code formatting">>
                                                 ELSE <<"Formatting C++ files">>)
            /\ pc' = IF check THEN "check_loop" ELSE "format_loop"
            /\ UNCHANGED exitStatus
    /\ UNCHANGED <<haveTool, fsFiles, project_dir, utility, fmtVars>>
    /\ UNCHANGED notFormat

\* check branch, one iteration: if not check_file_format(file): ...
FormatCheckFile(rc) ==
    /\ pc = "check_loop"
    /\ idx <= Len(files)
    /\ clang_format(check_file_format_args, files[idx], rc)
    /\ IF ~check_file_format(rc)
       THEN /\ needs_format' = Append(needs_format, files[idx])
            /\ console' = console_print(<<"failed">> \o relative_to_grandparent(files[idx]))
       ELSE UNCHANGED <<needs_format, console>>
    /\ idx' = idx + 1
    /\ UNCHANGED <<pc, exitStatus, haveTool, fsFiles, project_dir, utility,
                   files, discovered, check>>
    /\ UNCHANGED notFormat

\* check branch after the loop: sys.exit(0), or list needs_format and sys.exit(1)
FormatCheckReport ==
    /\ pc = "check_loop"
    /\ idx > Len(files)
    /\ IF needs_format = <<>>
       THEN /\ console' = console_print(<<"All files are properly formatted">>)
            /\ Exit(0, "exited")
       ELSE /\ console' = console_print(<<"files need formatting">>)
                            \o [i \in 1..Len(needs_format) |->
                                  <<"listed">> \o relative_to_grandparent(needs_format[i])]
            /\ Exit(1, "exited")
    /\ UNCHANGED <<haveTool, fsFiles, project_dir, utility, files,
                   discovered, fmtVars>>
    /\ UNCHANGED notFormat

\* apply branch, one iteration: format_file(file) runs with check=True, so a
\* non-zero returncode raises CalledProcessError, which nothing catches
FormatApplyFile(rc) ==
    /\ pc = "format_loop"
    /\ idx <= Len(files)
    /\ clang_format(format_file_args, files[idx], rc)
    /\ IF format_file_raises(rc)
       THEN /\ Exit(1, "crashed")
            /\ UNCHANGED <<console, idx>>
       ELSE /\ console' = console_print(<<"ok", Name(files[idx])>>)
            /\ idx' = idx + 1
            /\ UNCHANGED <<pc, exitStatus>>
    /\ UNCHANGED <<haveTool, fsFiles, project_dir, utility, files,
                   discovered, check, needs_format>>
    /\ UNCHANGED notFormat

\* apply branch after the loop: main returns
FormatApplyDone ==
    /\ pc = "format_loop"
    /\ idx > Len(files)
    /\ console' = console_print(<<"All files have been formatted">>)
    /\ Exit(0, "exited")
    /\ UNCHANGED <<haveTool, fsFiles, project_dir, utility, files,
                   discovered, fmtVars>>
    /\ UNCHANGED notFormat

FormatNext ==
    \/ FormatCheckTool
    \/ FormatFindFiles
    \/ \E rc \in FormatterCodes : FormatCheckFile(rc)
    \/ FormatCheckReport
    \/ \E rc \in FormatterCodes : FormatApplyFile(rc)
    \/ FormatApplyDone

FormatSpec == FormatInit /\ [][FormatNext]_vars

----------------------------------------------------------------------------
(* build.py *)

\* returncodes a cmake run can end with
CmakeCodes == {0, 1, 2}

\* what a build directory left by an earlier run can hold
PriorContents == {"stale.o", "compile_commands.json"}

\* find_vcpkg_toolchain: possible_locations
possible_locations ==
    << "vcpkg/scripts/buildsystems/vcpkg.cmake",
       "~/vcpkg/scripts/buildsystems/vcpkg.cmake",
       "/usr/local/share/vcpkg/scripts/buildsystems/vcpkg.cmake",
       "C:/vcpkg/scripts/buildsystems/vcpkg.cmake" >>

find_vcpkg_toolchain_EnvFirst ==
    IF vcpkgRoot = "valid"
    THEN "$VCPKG_ROOT/scripts/buildsystems/vcpkg.cmake"
    ELSE IF \E i \in 1..Len(possible_locations) : i \in vcpkgExists
         THEN possible_locations[CHOOSE i \in 1..Len(possible_locations) :
                                   /\ i \in vcpkgExists
                                   /\ \A j \in 1..(i - 1) : j \notin vcpkgExists]
         ELSE NoToolchain

\* the first existing entry of possible_locations, else the toolchain file
\* below a non-empty VCPKG_ROOT if it exists, else None; the path returned
\* is the resolved form of the location, named here by the location
find_vcpkg_toolchain ==
    IF \E i \in 1..Len(possible_locations) : i \in vcpkgExists
    THEN possible_locations[CHOOSE i \in 1..Len(possible_locations) :
                              /\ i \in vcpkgExists
                              /\ \A j \in 1..(i - 1) : j \notin vcpkgExists]
    ELSE IF vcpkgRoot = "valid"
         THEN "$VCPKG_ROOT/scripts/buildsystems/vcpkg.cmake"
         ELSE NoToolchain

\* jobs or os.cpu_count() or 4
DefaultJobs == 4
parallel_jobs ==
    IF jobsGiven /\ jobs # 0 THEN jobs
    ELSE IF cpu_count # NoneValue THEN cpu_count
    ELSE DefaultJobs

BuildInit ==
    /\ pc = "start"
    /\ exitStatus = Running
    /\ console = <<>>
    /\ haveTool \in BOOLEAN
    /\ mode \in {"debug", "release"}
    /\ tests \in BOOLEAN
    /\ clean \in BOOLEAN
    /\ verbose \in BOOLEAN
    /\ export_compile_commands \in BOOLEAN
    /\ jobsGiven \in BOOLEAN
    /\ jobs \in IF jobsGiven THEN {0, 2} ELSE {NoneValue}
    /\ cpu_count \in {NoneValue, 3}
    /\ buildDir \in {[exists |-> FALSE, contents |-> {}]}
                      \cup [exists : {TRUE}, contents : SUBSET PriorContents]
    /\ rootCompileCommands \in {"absent", "stale"}
    /\ vcpkgExists \in {{}, {2}, {1, 3}}
    /\ vcpkgRoot \in {"unset", "valid"}
    /\ toolchain_file = NoToolchain
    /\ commands = <<>>
    /\ cleaned = <<>>
    /\ fsFiles = {}
    /\ project_dir = <<"home", "repo">>
    /\ utility = "build"
    /\ files = <<>>
    /\ discovered = FALSE
    /\ LintIdle
    /\ FormatIdle

should_clean_Always == buildDir.exists

\* main: if clean and build_dir.exists():
should_clean == clean /\ buildDir.exists

\* main: if clean and build_dir.exists(): shutil.rmtree(build_dir)
BuildClean ==
    /\ utility = "build"
    /\ pc = "start"
    /\ IF should_clean
       THEN /\ buildDir' = [exists |-> FALSE, contents |-> {}]
            /\ cleaned' = Append(cleaned, buildDir.contents)
            /\ console' = console_print(<<"Build directory cleaned">>)
       ELSE UNCHANGED <<buildDir, cleaned, console>>
    /\ pc' = "mkdir"
    /\ UNCHANGED <<exitStatus, haveTool, jobs, buildOpts, buildEnv,
                   rootCompileCommands, toolchain_file, commands>>
    /\ UNCHANGED notBuild

\* main: build_dir.mkdir(exist_ok=True)
BuildMkdir ==
    /\ pc = "mkdir"
    /\ buildDir' = [buildDir EXCEPT !.exists = TRUE]
    /\ pc' = "find_vcpkg_toolchain"
    /\ UNCHANGED <<exitStatus, console, haveTool, jobs, buildOpts, buildEnv,
                   rootCompileCommands, toolchain_file, commands, cleaned>>
    /\ UNCHANGED notBuild

\* main: toolchain_file = find_vcpkg_toolchain()
BuildFindToolchain ==
    /\ pc = "find_vcpkg_toolchain"
    /\ toolchain_file' = find_vcpkg_toolchain
    /\ console' = console_print(IF find_vcpkg_toolchain = NoToolchain
                                THEN <<"vcpkg toolchain not found">>
                                ELSE <<"Using vcpkg toolchain", find_vcpkg_toolchain>>)
    /\ pc' = "configure"
    /\ UNCHANGED <<exitStatus, haveTool, jobs, buildOpts, buildEnv, buildDir,
                   rootCompileCommands, commands, cleaned>>
    /\ UNCHANGED notBuild

\* main: cmake_args
cmake_args ==
    <<"cmake", "project_root",
      IF mode = "debug" THEN "-DCMAKE_BUILD_TYPE=Debug"
                        ELSE "-DCMAKE_BUILD_TYPE=Release">>
    \o (IF toolchain_file # NoToolchain
        THEN <<"-DCMAKE_TOOLCHAIN_FILE", toolchain_file>> ELSE <<>>)
    \o (IF export_compile_commands
        THEN <<"-DCMAKE_EXPORT_COMPILE_COMMANDS=ON">> ELSE <<>>)
    \o <<IF tests THEN "-DBUILD_TESTS=ON" ELSE "-DBUILD_TESTS=OFF">>
    \o <<"-DBUILD_EXAMPLES=ON">>

\* main: build_args; the degree follows "--parallel" as a number
build_args ==
    <<"cmake", "--build", ".">>
    \o (IF verbose THEN <<"--verbose">> ELSE <<>>)
    \o <<"--parallel">>

raises_CalledProcessError_Unchecked(rc) == FALSE

\* run_command: subprocess.run(cmd, ..., check=check) with the default
\* check=True raises CalledProcessError on a non-zero returncode
raises_CalledProcessError(rc) == rc # 0

failure_status_Propagated(rc) == rc

\* run_command: except subprocess.CalledProcessError as e: ... sys.exit(1)
failure_status(rc) == 1

\* run_command(cmd, cwd=build_dir) of a cmake that ends with returncode rc and
\* leaves the entries made in build_dir; subprocess.run raises
\* FileNotFoundError, which nothing catches, when cmake is not installed, and
\* CalledProcessError, answered by sys.exit(1), when rc is not 0
run_command(cmd, parallel, rc, made, next) ==
    IF ~haveTool
    THEN /\ Exit(1, "crashed")
         /\ UNCHANGED <<console, commands, buildDir>>
    ELSE /\ commands' = Append(commands, [args |-> cmd, parallel |-> parallel,
                                          saw |-> buildDir.contents, rc |-> rc])
         /\ IF raises_CalledProcessError(rc)
            THEN /\ console' = console_print(<<"Error running command">>)
                 /\ Exit(failure_status(rc), "exited")
                 /\ UNCHANGED buildDir
            ELSE /\ buildDir' = [buildDir EXCEPT !.contents = @ \cup made]
                 /\ console' = console_print(<<"completed", cmd[2]>>)
                 /\ pc' = next
                 /\ UNCHANGED exitStatus

\* main: run_command(cmake_args, cwd=build_dir); the generator writes the
\* compile database only when asked to, and not every generator does
BuildConfigure(rc, db) ==
    /\ pc = "configure"
    /\ run_command(cmake_args, NoneValue, rc,
                   {"CMakeCache.txt"} \cup
                     (IF export_compile_commands /\ db
                      THEN {"compile_commands.json"} ELSE {}),
                   "build")
    /\ UNCHANGED <<haveTool, jobs, buildOpts, buildEnv, rootCompileCommands,
                   toolchain_file, cleaned>>
    /\ UNCHANGED notBuild

\* main: run_command(build_args, cwd=build_dir)
BuildCompile(rc) ==
    /\ pc = "build"
    /\ run_command(build_args, parallel_jobs, rc, {"libai-sdk-cpp.a"}, "copy")
    /\ UNCHANGED <<haveTool, jobs, buildOpts, buildEnv, rootCompileCommands,
                   toolchain_file, cleaned>>
    /\ UNCHANGED notBuild

compile_commands_src_exists_Assumed == TRUE

\* main: compile_commands_src.exists()
compile_commands_src_exists == "compile_commands.json" \in buildDir.contents

\* main: copy compile_commands.json if requested, print the results, return
BuildExport ==
    /\ pc = "copy"
    /\ IF export_compile_commands
       THEN IF compile_commands_src_exists
            THEN /\ rootCompileCommands' = "exported"
                 /\ console' = console_print(<<"Exported compile commands">>)
                                 \o <<<<"Build Results">>>>
            ELSE /\ console' = console_print(<<"compile_commands.json not generated">>)
                                 \o <<<<"Build Results">>>>
                 /\ UNCHANGED rootCompileCommands
       ELSE /\ console' = console_print(<<"Build Results">>)
            /\ UNCHANGED rootCompileCommands
    /\ Exit(0, "exited")
    /\ UNCHANGED <<haveTool, jobs, buildOpts, buildEnv, buildDir,
                   toolchain_file, commands, cleaned>>
    /\ UNCHANGED notBuild

BuildNext ==
    \/ BuildClean
    \/ BuildMkdir
    \/ BuildFindToolchain
    \/ \E rc \in CmakeCodes, db \in BOOLEAN : BuildConfigure(rc, db)
    \/ \E rc \in CmakeCodes : BuildCompile(rc)
    \/ BuildExport

BuildSpec == BuildInit /\ [][BuildNext]_vars

\* build.py over every combination of existing toolchain locations
ToolchainInit ==
    /\ pc = "start"
    /\ exitStatus = Running
    /\ console = <<>>
    /\ haveTool = TRUE
    /\ mode = "debug"
    /\ tests = FALSE
    /\ clean = FALSE
    /\ verbose = FALSE
    /\ export_compile_commands = FALSE
    /\ jobsGiven = FALSE
    /\ jobs = NoneValue
    /\ cpu_count = NoneValue
    /\ buildDir = [exists |-> FALSE, contents |-> {}]
    /\ rootCompileCommands = "absent"
    /\ vcpkgExists \in SUBSET (1..Len(possible_locations))
    /\ vcpkgRoot \in {"unset", "empty", "missing", "valid"}
    /\ toolchain_file = NoToolchain
    /\ commands = <<>>
    /\ cleaned = <<>>
    /\ fsFiles = {}
    /\ project_dir = <<"home", "repo">>
    /\ utility = "build"
    /\ files = <<>>
    /\ discovered = FALSE
    /\ LintIdle
    /\ FormatIdle

ToolchainSpec == ToolchainInit /\ [][BuildNext]_vars

----------------------------------------------------------------------------
(* The three utilities together *)

\* one run of lint.py, of format.py or of build.py
ToolsInit == LintInit \/ FormatInit \/ BuildInit

ToolsNext == Next \/ FormatNext \/ BuildNext

ToolsSpec == ToolsInit /\ [][ToolsNext]_vars

\* one run of a runner that discovers files: lint.py or format.py
RunnersInit == LintInit \/ FormatInit

RunnersNext == Next \/ FormatNext

RunnersSpec == RunnersInit /\ [][RunnersNext]_vars

----------------------------------------------------------------------------
(* lint.py when starting clang-tidy can fail *)

permits_after_raise_Leaked == semaphore - 1

\* lint_file: "async with semaphore" around a body that raises: __aenter__
\* takes a permit and __aexit__ gives it back
permits_after_raise == semaphore

\* lint_file when create_subprocess_exec raises (clang-tidy gone since the
\* check in main, no process or descriptor to be had): no child is started,
\* the exception leaves the "async with" block and ends the task;
\* as_completed queues the task
LintFileSpawnFails(f) ==
    /\ pc = "as_completed"
    /\ taskpc[f] = "pending"
    /\ SemaphoreFree
    /\ semaphore' = permits_after_raise
    /\ taskpc' = [taskpc EXCEPT ![f] = "raised"]
    /\ doneq' = Append(doneq, f)
    /\ UNCHANGED <<commonVars, lintOpts, compile_commands, child, spawns,
                   result, lintLoop, success>>
    /\ UNCHANGED notLint

\* lint_all_files: "await coro" of a task that raised: nothing catches the
\* exception, asyncio.run cancels the tasks that are left (a task waiting in
\* communicate gets CancelledError and leaves its "async with" block, a task
\* that has not started never runs) and the interpreter exits with status 1
LintCollectRaises ==
    /\ pc = "as_completed"
    /\ doneq # <<>>
    /\ taskpc[next_completed] = "raised"
    /\ doneq' = Tail(doneq)
    /\ taskpc' = [f \in Candidates |->
                    IF taskpc[f] \in {"pending", "communicate"}
                    THEN "cancelled" ELSE taskpc[f]]
    /\ semaphore' = semaphore
                      + Cardinality({f \in Candidates : taskpc[f] = "communicate"})
    /\ Exit(1, "crashed")
    /\ UNCHANGED <<console, haveTool, fsFiles, project_dir, utility, files,
                   discovered>>
    /\ UNCHANGED <<lintOpts, compile_commands, child, spawns, result,
                   lintLoop, success>>
    /\ UNCHANGED notLint

FaultNext ==
    \/ Next
    \/ \E f \in Candidates : LintFileSpawnFails(f)
    \/ LintCollectRaises

FaultSpec == LintInit /\ [][FaultNext]_vars

----------------------------------------------------------------------------
(* Properties of lint.py *)

\* the lint_file operations whose clang-tidy has been started and that have
\* not finished
InFlight == {f \in Candidates : taskpc[f] = "communicate"}

Failed(f) == child[f].state = "exited" /\ child[f].rc # 0

PreconditionsPass == haveTool /\ (buildDb \/ rootDb)

FanOutFinished == pc = "summary" \/ (pc = "exited" /\ semaphore # NoSemaphore)

\* C1: in the fan-out built by lint_all_files with limit K = jobs, the number
\* of lint_file operations that have started their clang-tidy and not yet
\* finished never exceeds K.
C1_InFlightAtMostJobs ==
    semaphore # NoSemaphore => Cardinality(InFlight) <= jobs

\* the limit binds: K operations in flight while another file waits
C1_Witness ==
    /\ jobs = 2
    /\ Cardinality(InFlight) = 2
    /\ \E f \in Candidates : taskpc[f] = "pending"

\* C2: for every file list and every --jobs value, with fair scheduling and
\* children that exit, a run that reaches lint_all_files eventually returns
\* from it, having spawned exactly one clang-tidy per file.
C2_EveryFileRunsOnceAndReturns ==
    (pc = "lint_all_files") ~>
        (pc = "summary" /\ \A f \in Range(files) : spawns[f] = 1)

\* C3: when the fan-out has finished, exactly N results have been collected,
\* one per file, each carrying the success flag and the output of the
\* clang-tidy that ran on that file, whatever the completion order.
C3_ResultsAttachedToTheirFile ==
    FanOutFinished =>
        /\ Len(collected) = Len(files)
        /\ \A f \in Range(files) :
             /\ Cardinality({i \in 1..Len(collected) : collected[i][1] = f}) = 1
             /\ \E i \in 1..Len(collected) :
                  collected[i] = <<f, child[f].rc = 0,
                                   child[f].stdout \o child[f].stderr>>

\* finished with results collected out of submission order, the two files
\* differing in outcome
C3_Witness ==
    /\ pc = "summary"
    /\ \E i, j \in 1..Len(collected) :
         /\ i < j
         /\ PathLess(collected[j][1], collected[i][1])
         /\ collected[i][2] # collected[j][2]
         /\ collected[i][3] # collected[j][3]

\* C4: a file whose clang-tidy exits non-zero neither cancels nor blocks the
\* others: while some file has failed, main stays in the collecting loop until
\* all N results are in, a waiting file can still start as soon as a permit is
\* free, and on return every file has run.
C4_FailureDoesNotStopOthers ==
    (\E g \in Range(files) : Failed(g)) =>
        /\ pc # "as_completed" =>
             /\ Len(collected) = Len(files)
             /\ \A f \in Range(files) : spawns[f] = 1 /\ taskpc[f] = "done"
        /\ \A f \in Range(files) :
             (pc = "as_completed" /\ taskpc[f] = "pending" /\ semaphore > 0)
                 => ENABLED LintFileStart(f)

\* a failure has been collected while another file is still being linted
C4_Witness ==
    /\ pc = "as_completed"
    /\ failed_files # <<>>
    /\ \E f \in Range(files) : taskpc[f] = "communicate"
    /\ \E f \in Range(files) : taskpc[f] = "pending"

\* C5: once the preconditions pass, the exit status is 1 if and only if some
\* file's clang-tidy exited non-zero, and 0 otherwise (also with no file).
C5_ExitStatusIffSomeFileFailed ==
    (PreconditionsPass /\ exitStatus # Running) =>
        /\ exitStatus \in {0, 1}
        /\ exitStatus = 1 <=> \E f \in Range(files) : Failed(f)

\* C6: without clang-tidy on the path, or without a compile database in the
\* build directory and the project root, the run exits with status 1 before
\* any file is discovered and before any clang-tidy is spawned.
C6_PreconditionsEnforced ==
    ~PreconditionsPass =>
        /\ pc \in {"start", "find_compile_commands", "exited"}
        /\ pc = "exited" => exitStatus = 1
        /\ ~discovered
        /\ files = <<>>
        /\ \A f \in Candidates : spawns[f] = 0 /\ child[f].state = "none"

\* clang-tidy is installed, sources exist, but no compile database: exited 1
C6_Witness ==
    /\ haveTool /\ ~buildDb /\ ~rootDb
    /\ <<"src", "a.cpp">> \in fsFiles
    /\ jobs > 0
    /\ pc = "exited"
    /\ exitStatus = 1

----------------------------------------------------------------------------
(* Properties of format.py *)

NonConforming == {i \in 1..Len(invocations) : invocations[i].rc # 0}

\* the console lines of the final list of files that need formatting
Listed == SelectSeq(console, LAMBDA line : line[1] = "listed")

\* every file of the sorted list has been handed to clang-format, in order
AllFilesProcessed ==
    /\ Len(invocations) = Len(files)
    /\ \A i \in 1..Len(files) : invocations[i].file = files[i]

\* C7: in check mode every discovered file is checked; the exit status is 1
\* if and only if the dry run exited non-zero for some file, and then exactly
\* those files are listed; it is 0 when all files conform.
C7_CheckModeStatusAndList ==
    (check /\ pc = "exited" /\ discovered) =>
        /\ AllFilesProcessed
        /\ exitStatus \in {0, 1}
        /\ exitStatus = 1 <=> NonConforming # {}
        /\ Len(Listed) = Cardinality(NonConforming)
        /\ {Tail(Listed[k]) : k \in 1..Len(Listed)}
             = {relative_to_grandparent(invocations[i].file) : i \in NonConforming}

\* a check run over conforming and non-conforming files has exited with 1
C7_Witness ==
    /\ check /\ pc = "exited" /\ exitStatus = 1
    /\ Len(files) >= 3
    /\ NonConforming # {}
    /\ NonConforming # 1..Len(files)

\* C8: in check mode no source file is modified: every clang-format run is a
\* dry run and the in-place rewrite of format_file is never executed.
C8_CheckModeModifiesNothing ==
    check =>
        /\ rewritten = {}
        /\ \A i \in 1..Len(invocations) :
             /\ "--dry-run" \in Range(invocations[i].args)
             /\ "-i" \notin Range(invocations[i].args)

\* a check run has gone over several files, some of them non-conforming
C8_Witness ==
    /\ check /\ pc = "exited"
    /\ Len(invocations) >= 2
    /\ \E i, j \in 1..Len(invocations) :
         invocations[i].rc = 0 /\ invocations[j].rc # 0

\* C9 as stated: in check mode and in apply mode alike, a non-zero exit of
\* clang-format on one file does not abort the run: when the run is over, all
\* files of the sorted list have been processed.
C9_FailureNeverAbortsTheRun ==
    (pc \in {"exited", "crashed"} /\ discovered) => AllFilesProcessed

\* C9 amended: in check mode a non-zero exit is recovered at the item level
\* (all files are still checked and the failures are accumulated in
\* needs_format); in apply mode it is fatal: the run stops at the first file
\* for which clang-format exits non-zero, with exit status 1, and the files
\* after it are not processed.
C9_CheckRecoversApplyAborts ==
    (pc \in {"exited", "crashed"} /\ discovered) =>
        /\ check =>
             /\ pc = "exited"
             /\ AllFilesProcessed
             /\ Len(needs_format) = Cardinality(NonConforming)
             /\ Range(needs_format) = {invocations[i].file : i \in NonConforming}
        /\ ~check =>
             /\ Len(invocations) <= Len(files)
             /\ \A i \in 1..Len(invocations) : invocations[i].file = files[i]
             /\ NonConforming \subseteq {Len(invocations)}
             /\ pc = "crashed" <=> NonConforming # {}
             /\ pc = "crashed" => exitStatus = 1
             /\ pc = "exited" => Len(invocations) = Len(files) /\ exitStatus = 0

\* an apply run has stopped at a failing file with files left unprocessed
C9_Witness ==
    /\ ~check /\ pc = "crashed"
    /\ Len(invocations) >= 2
    /\ Len(invocations) < Len(files)
    /\ invocations[Len(invocations)].rc # 0

----------------------------------------------------------------------------
(* Properties of build.py *)

\* C10: with --clean an existing build directory is removed entirely before
\* the configuration command is invoked, which therefore never sees prior
\* contents; without --clean the orchestrator never removes an existing build
\* directory or anything in it.
C10_CleanBeforeConfigure ==
    /\ [](clean =>
            /\ Len(commands) >= 1 => commands[1].saw = {}
            /\ \A i \in 1..Len(commands) : "stale.o" \notin commands[i].saw)
    /\ [][(clean /\ pc = "start" /\ buildDir.exists)
             => (~buildDir'.exists /\ buildDir'.contents = {})]_vars
    /\ [][(~clean /\ buildDir.exists)
             => (buildDir'.exists /\ buildDir.contents \subseteq buildDir'.contents)]_vars
    /\ [](~clean => cleaned = <<>>)

\* a build directory with prior contents was removed and cmake then configured
C10_Witness ==
    /\ clean
    /\ cleaned = <<PriorContents>>
    /\ Len(commands) >= 1
    /\ commands[1].rc = 0

IsConfigure(c) == c.args[2] = "project_root"
IsBuild(c)     == c.args[2] = "--build"

\* C11: the steps run in the order configure, build, compile-database copy,
\* and a failing cmake aborts the rest: the build command is invoked only
\* after the configuration command exited 0, and the copy and the success
\* report happen only after the build command exited 0.
C11_StepsOrderedAndFailureFatal ==
    /\ [](/\ Len(commands) <= 2
          /\ Len(commands) >= 1 => IsConfigure(commands[1])
          /\ Len(commands) = 2 => IsBuild(commands[2]) /\ commands[1].rc = 0
          /\ (\/ pc = "copy"
              \/ rootCompileCommands = "exported"
              \/ <<"Build Results">> \in Range(console))
               => Len(commands) = 2 /\ commands[2].rc = 0
          /\ (Len(commands) >= 1 /\ commands[Len(commands)].rc # 0)
               => pc = "exited" /\ exitStatus # 0)
    /\ [][(Len(commands) >= 1 /\ commands[Len(commands)].rc # 0)
             => UNCHANGED <<commands, buildDir, rootCompileCommands, console>>]_vars

\* configuration succeeded, the build failed: nothing was exported or reported
C11_Witness ==
    /\ Len(commands) = 2
    /\ commands[2].rc # 0
    /\ export_compile_commands
    /\ "compile_commands.json" \in buildDir.contents
    /\ rootCompileCommands = "stale"
    /\ pc = "exited"

\* C12 as stated: the exit code is 0 when both cmake runs succeed, and when
\* one of them exits non-zero it is that subprocess's exit code.
C12_ExitCodePropagated ==
    exitStatus # Running =>
        /\ (Len(commands) = 2 /\ commands[2].rc = 0) => exitStatus = 0
        /\ (Len(commands) >= 1 /\ commands[Len(commands)].rc # 0)
             => exitStatus = commands[Len(commands)].rc

\* C12 amended: the exit code is 0 when both cmake runs succeed, and when one
\* of them exits non-zero it is 1, whatever the exit code of that subprocess.
C12_ExitCodeOneOnFailure ==
    exitStatus # Running =>
        /\ (Len(commands) = 2 /\ commands[2].rc = 0) => exitStatus = 0
        /\ (Len(commands) >= 1 /\ commands[Len(commands)].rc # 0)
             => exitStatus = 1
        /\ exitStatus = 0 =>
             Len(commands) = 2 /\ commands[1].rc = 0 /\ commands[2].rc = 0

\* the build command exited with 2 and the orchestrator with 1
C12_Witness ==
    /\ Len(commands) = 2
    /\ commands[2].rc = 2
    /\ exitStatus = 1

EnvToolchain == "$VCPKG_ROOT/scripts/buildsystems/vcpkg.cmake"

\* C14: find_vcpkg_toolchain returns the first existing fixed location in
\* the listed order whatever else exists; VCPKG_ROOT decides the result only
\* when no fixed location exists, and is selected when it then points to an
\* existing toolchain file; the result is None exactly when no candidate exists.
C14_ToolchainResolution ==
    pc \notin {"start", "mkdir", "find_vcpkg_toolchain"} =>
        /\ \A i \in vcpkgExists :
             (\A j \in vcpkgExists : i <= j) => toolchain_file = possible_locations[i]
        /\ (vcpkgExists = {} /\ vcpkgRoot = "valid") => toolchain_file = EnvToolchain
        /\ toolchain_file = EnvToolchain => vcpkgExists = {}
        /\ toolchain_file = NoToolchain <=> (vcpkgExists = {} /\ vcpkgRoot # "valid")

\* two fixed locations and a valid VCPKG_ROOT exist: the earlier location won
C14_Witness ==
    /\ vcpkgExists = {2, 4}
    /\ vcpkgRoot = "valid"
    /\ toolchain_file = possible_locations[2]
    /\ pc = "configure"

\* C15: the degree passed to "cmake --build" after --parallel is the --jobs
\* value whenever one is given, otherwise the detected processor count,
\* otherwise 4.
C15_ParallelDegree ==
    \A i \in 1..Len(commands) :
        IsBuild(commands[i]) =>
            commands[i].parallel =
                IF jobsGiven THEN jobs
                ELSE IF cpu_count # NoneValue THEN cpu_count
                ELSE DefaultJobs

\* C16: after a successful build the compile database is copied to the
\* project root if and only if --export-compile-commands was given and the
\* file exists in the build directory; when it was asked for but is missing
\* the orchestrator only warns and still exits 0, and when it was not asked
\* for the root-level compile database is never changed.
C16_ExportCompileCommands ==
    /\ []((pc = "exited" /\ exitStatus = 0) =>
            /\ rootCompileCommands = "exported"
                 <=> (export_compile_commands
                      /\ "compile_commands.json" \in buildDir.contents)
            /\ (export_compile_commands
                /\ "compile_commands.json" \notin buildDir.contents)
                 => <<"compile_commands.json not generated">> \in Range(console))
    /\ [](rootCompileCommands = "exported" =>
            Len(commands) = 2 /\ commands[2].rc = 0)
    /\ [][(pc = "copy" /\ export_compile_commands
           /\ "compile_commands.json" \notin buildDir.contents)
             => (exitStatus' = 0 /\ UNCHANGED rootCompileCommands)]_vars
    /\ [][~export_compile_commands => UNCHANGED rootCompileCommands]_vars

\* the export was asked for, the build succeeded and the file was copied over
\* a stale root-level compile database
C16_Witness ==
    /\ export_compile_commands
    /\ pc = "exited" /\ exitStatus = 0
    /\ rootCompileCommands = "exported"
    /\ "stale.o" \in buildDir.contents
----------------------------------------------------------------------------
(* Properties of the three utilities *)

\* no directory removed, no file discovered or rewritten, no child started
NoWorkDone ==
    /\ cleaned = <<>>
    /\ commands = <<>>
    /\ ~discovered
    /\ files = <<>>
    /\ invocations = <<>>
    /\ rewritten = {}
    /\ \A f \in Candidates : spawns[f] = 0

\* C13: in each of the three utilities, when the required external tool is
\* not installed the run never gets past its first step: it is either still
\* at the start of main or has exited with a non-zero status, and in both
\* cases no directory has been removed or created, no file discovered or
\* rewritten and no child process spawned.
C13_MissingToolFatalUpfront ==
    ~haveTool =>
        /\ pc \in {"start", "exited"}
        /\ pc = "exited" => exitStatus \notin {Running, 0}
        /\ NoWorkDone

----------------------------------------------------------------------------
(* Properties of file discovery *)

\* the extension set of the runner
RunnerExtensions ==
    IF utility = "lint" THEN LintExtensions ELSE FormatExtensions

\* the path of f below the project root has an excluded name as a segment
HasExcludedSegment(f) == \E k \in 1..Len(f) : f[k] \in exclude_dirs

----------------------------------------------------------------------------
(* Properties of the semaphore *)

\* the lint_file tasks inside their "async with semaphore" block
Holders == {f \in Candidates : taskpc[f] = "communicate"}

\* C19: once the semaphore exists, the free permits are never negative and,
\* with the permits of the tasks inside the guarded block, add up to K = jobs;
\* a clang-tidy started during the fan-out belongs to a task inside the
\* block; and a task that has left the block (result returned, exception
\* while spawning, cancellation while waiting) is not a holder, so that with
\* no task inside the block all K permits are free.
C19_PermitsConserved ==
    semaphore # NoSemaphore =>
        /\ semaphore >= 0
        /\ semaphore + Cardinality(Holders) = jobs
        /\ \A f \in Candidates :
             (pc = "as_completed" /\ child[f].state = "alive") => f \in Holders
        /\ \A f \in Candidates : spawns[f] > 0 => taskpc[f] # "pending"
        /\ Holders = {} => semaphore = jobs

\* one task failed to start its clang-tidy while another holds a permit and
\* a third waits
C19_Witness ==
    /\ jobs = 2
    /\ semaphore = 1
    /\ \E f \in Range(files) : taskpc[f] = "raised"
    /\ \E f \in Range(files) : taskpc[f] = "communicate"
    /\ \E f \in Range(files) : taskpc[f] = "pending"


----------------------------------------------------------------------------
(* Properties of progress and console order *)

\* the per-file lines of the console, in the order printed
PerFileLines == SelectSeq(console, LAMBDA line : line[1] \in {"ok", "failed"})

\* the line the lint loop prints for a collected result
LintLine(r) == <<IF r[2] THEN "ok" ELSE "failed", Name(r[1])>>

\* the clang-format runs the formatter reports with a line of their own
Reported == SelectSeq(invocations,
                      LAMBDA inv : IF check THEN inv.rc # 0 ELSE inv.rc = 0)

FormatLine(inv) ==
    IF check THEN <<"failed">> \o relative_to_grandparent(inv.file)
    ELSE <<"ok", Name(inv.file)>>

\* C18: in the lint fan-out a task is queued when it finishes and the loop
\* collects the queue from its head, advancing the progress count by one per
\* collected result, so the count always equals the number of results
\* collected and equals N when the fan-out has ended, and the per-file
\* console lines are those of the collected results in that (completion)
\* order; the formatter runs clang-format on files[1], files[2], ... in the
\* sorted order of the list and prints its per-file lines in that order.
C18_ProgressAndOrder ==
    /\ [](progress = Len(collected))
    /\ [](FanOutFinished => progress = Len(files))
    /\ [](utility = "lint" =>
            PerFileLines = [i \in 1..Len(collected) |-> LintLine(collected[i])])
    /\ [][collected' # collected =>
            /\ doneq # <<>>
            /\ collected' = Append(collected, result[Head(doneq)])
            /\ doneq' = Tail(doneq)
            /\ progress' = progress + 1]_vars
    /\ [][(utility = "lint" /\ doneq' # doneq /\ collected' = collected
              /\ pc' = "as_completed") =>
            \E f \in Range(files) :
                /\ taskpc[f] \in {"pending", "communicate"}
                /\ taskpc'[f] \in {"done", "raised"}
                /\ doneq' = Append(doneq, f)]_vars
    /\ [](utility = "format" =>
            /\ Len(invocations) <= Len(files)
            /\ \A i \in 1..Len(invocations) : invocations[i].file = files[i]
            /\ PerFileLines = [i \in 1..Len(Reported) |-> FormatLine(Reported[i])])
    /\ [][(utility = "format" /\ invocations' # invocations) =>
            /\ Len(invocations') = Len(invocations) + 1
            /\ invocations'[Len(invocations')].file = files[Len(invocations')]]_vars

\* a lint run of three files has finished, the results were collected in
\* an order that is not the sorted order of the list, and the count is 3
C18_Witness ==
    /\ utility = "lint"
    /\ pc = "summary"
    /\ jobs >= 2
    /\ Len(files) = 3
    /\ progress = 3
    /\ Len(PerFileLines) = 3
    /\ \E i, j \in 1..Len(collected) :
         i < j /\ PathLess(collected[j][1], collected[i][1])

----------------------------------------------------------------------------
(* Properties of the failure report *)

\* the collected results whose clang-tidy exited non-zero, in the order
\* in which they were collected
CollectedFailures == SelectSeq(collected, LAMBDA r : ~r[2])

ReportPrinted ==
    \E i \in 1..Len(console) :
        console[i] = <<"Issues found in the following files">>

\* C20: the aggregate failure report is printed only after all N results
\* have been collected and every task has finished; failed_files holds, in
\* completion order, one entry per collected result whose clang-tidy exited
\* non-zero, each pairing the file with the stdout and stderr of its own
\* clang-tidy; no file that succeeded appears in it; and when the fan-out has
\* finished the files in it are exactly the files that failed, each once.
C20_FailureReportAggregate ==
    /\ ReportPrinted =>
          /\ Len(collected) = Len(files)
          /\ \A f \in Range(files) : taskpc[f] = "done"
          /\ failed_files # <<>>
    /\ Len(failed_files) = Len(CollectedFailures)
    /\ \A i \in 1..Len(failed_files) :
          /\ failed_files[i][1] = CollectedFailures[i][1]
          /\ Failed(failed_files[i][1])
          /\ failed_files[i][2] = child[failed_files[i][1]].stdout
                                     \o child[failed_files[i][1]].stderr
    /\ FanOutFinished =>
          /\ {failed_files[i][1] : i \in 1..Len(failed_files)}
               = {f \in Range(files) : Failed(f)}
          /\ Len(failed_files) = Cardinality({f \in Range(files) : Failed(f)})
          /\ ReportPrinted <=> failed_files # <<>>

\* three files linted, two failed with different output and were collected
\* against the sorted order, one succeeded; the report has been printed
C20_Witness ==
    /\ pc = "summary"
    /\ jobs >= 2
    /\ Len(files) = 3
    /\ Len(failed_files) = 2
    /\ PathLess(failed_files[2][1], failed_files[1][1])
    /\ failed_files[1][2] # failed_files[2][2]
    /\ ReportPrinted

====
